---- MODULE Spec2Model ----
(***************************************************************************)
(* Model of the experiment-configuration derivation of devinterp-automata: *)
(*   src/di_automata/config_setup.py      the task configs, MainConfig and *)
(*                                        its pre root validator           *)
(*   src/di_automata/devinterp/rlct_utils.py   create_callbacks            *)
(*                                                                         *)
(* Python values are written as follows.  An Optional value is <<>> for    *)
(* None and <<x>> for the value x.  A mapping (dict) is a record; a key    *)
(* that is absent from the mapping is absent from the record's domain.     *)
(* A property's outcome is a record [exc, val]: exc = "" and val = <<x>>   *)
(* when it returns x, val = <<>> when it returns None, and exc names the   *)
(* exception when it raises.  The validation semantics are the ones of     *)
(* pydantic 1.x, the version whose validator/root_validator API the source *)
(* uses: a ValueError, TypeError or AssertionError raised in a validator   *)
(* becomes a ValidationError; any other exception leaves the constructor   *)
(* as it is.                                                               *)
(***************************************************************************)
EXTENDS Integers, Sequences, FiniteSets, TLC

VARIABLES
    raw,        \* the caller's raw input mapping; its nested groups are shared by reference with v
    raw0,       \* the raw input mapping as it was before the construction attempt
    v,          \* the top-level entries of the keyword dict that _set_fields assigns
    instance,   \* task_config_instance, the resolved task config (<<>> before it is built)
    pc,         \* position of the construction in MainConfig.__init__
    err,        \* the exception that ended the construction ("" when none)
    config,     \* the MainConfig object returned (<<>> when none)
    callbacks,  \* the first component returned by create_callbacks (<<>> before the call)
    callback_names, \* the second component returned by create_callbacks
    steps,      \* the statements of the construction executed so far, in order
    first       \* the outcome of an earlier construction from the same raw input (<<>> when none)

vars == <<raw, raw0, v, instance, pc, err, config, callbacks, callback_names, steps, first>>

----------------------------------------------------------------------------
(* Bounds of the model *)

MaxN == 3
MaxLength == 2
MaxDraws == 2
MaxStepsBwDraws == 2
MaxTrainBs == 2

----------------------------------------------------------------------------
(* Python values *)

None == <<>>
Some(x) == <<x>>
Val(o) == o[1]

Ret(x) == [exc |-> "", val |-> <<x>>]
RetNone == [exc |-> "", val |-> <<>>]
Raise(e) == [exc |-> e, val |-> <<>>]

Get(m, key, default) == IF key \in DOMAIN m THEN m[key] ELSE default

Min(a, b) == IF a <= b THEN a ELSE b

RECURSIVE Factorial(_)
Factorial(n) == IF n <= 1 THEN 1 ELSE n * Factorial(n - 1)

\* math.ceil(a / b) for integers a and b # 0
CeilDiv(a, b) == IF b > 0 THEN 0 - ((0 - a) \div b) ELSE 0 - (a \div (0 - b))

----------------------------------------------------------------------------
(* The task registry: DatasetType, config_class_map and the config classes *)

DatasetType == {"abab", "adder", "alternating", "cyclic", "dihedral", "flipflop",
                "gridworld", "parity", "quaternion", "symmetric", "permutation_reset"}

config_class_map_RegistersModular ==
    [tag \in {"abab", "adder", "alternating", "cyclic", "dihedral", "flipflop", "gridworld",
              "parity", "quaternion", "permutation_reset", "symmetric", "modular"} |->
        CASE tag = "abab" -> "ABABAutomatonConfig"
          [] tag = "adder" -> "AdderAutomatonConfig"
          [] tag = "alternating" -> "AlternatingAutomatonConfig"
          [] tag = "cyclic" -> "CyclicAutomatonConfig"
          [] tag = "dihedral" -> "DihedralAutomatonConfig"
          [] tag = "flipflop" -> "FlipFlopAutomatonConfig"
          [] tag = "gridworld" -> "GridworldAutomatonConfig"
          [] tag = "parity" -> "ParityAutomatonConfig"
          [] tag = "quaternion" -> "QuaternionAutomatonConfig"
          [] tag = "permutation_reset" -> "PermutationResetAutomatonConfig"
          [] tag = "symmetric" -> "SymmetricAutomatonConfig"
          [] tag = "modular" -> "CyclicAutomatonConfig"]

config_class_map ==
    [tag \in {"abab", "adder", "alternating", "cyclic", "dihedral", "flipflop",
              "gridworld", "parity", "quaternion", "permutation_reset", "symmetric"} |->
        CASE tag = "abab" -> "ABABAutomatonConfig"
          [] tag = "adder" -> "AdderAutomatonConfig"
          [] tag = "alternating" -> "AlternatingAutomatonConfig"
          [] tag = "cyclic" -> "CyclicAutomatonConfig"
          [] tag = "dihedral" -> "DihedralAutomatonConfig"
          [] tag = "flipflop" -> "FlipFlopAutomatonConfig"
          [] tag = "gridworld" -> "GridworldAutomatonConfig"
          [] tag = "parity" -> "ParityAutomatonConfig"
          [] tag = "quaternion" -> "QuaternionAutomatonConfig"
          [] tag = "permutation_reset" -> "PermutationResetAutomatonConfig"
          [] tag = "symmetric" -> "SymmetricAutomatonConfig"]

PermutationClasses == {"SymmetricAutomatonConfig", "AlternatingAutomatonConfig"}

\* The Label enum of a config class ({} when the class declares no label_type field)
Label(cls) ==
    CASE cls = "GridworldAutomatonConfig" -> {"state", "parity", "boundary"}
      [] cls = "ABABAutomatonConfig" -> {"state", "boundary"}
      [] cls = "AdderAutomatonConfig" -> {"state", "digit", "position"}
      [] cls \in PermutationClasses -> {"state", "first_chair"}
      [] cls = "DihedralAutomatonConfig" -> {"state", "toggle", "position"}
      [] OTHER -> {}

\* The declared default of field n of a config class
DefaultN(cls) ==
    CASE cls = "GridworldAutomatonConfig" -> 9
      [] cls = "FlipFlopAutomatonConfig" -> 2
      [] cls \in PermutationClasses -> 5
      [] cls = "CyclicAutomatonConfig" -> 5
      [] cls = "DihedralAutomatonConfig" -> 4
      [] cls = "PermutationResetAutomatonConfig" -> 4
      [] OTHER -> 0

HasN(cls) == cls \in {"GridworldAutomatonConfig", "FlipFlopAutomatonConfig", "CyclicAutomatonConfig",
                      "DihedralAutomatonConfig", "PermutationResetAutomatonConfig"} \cup PermutationClasses

DefaultNAddends == 2
DefaultLength == 100
DefaultSize == 600000
DefaultGenerators == << <<1, 0, 2, 3, 4>>, <<4, 0, 1, 2, 3>> >>

\* PermutationResetAutomatonConfig.check_generators: the exception it raises ("" when it passes).
\* n is values.get("n"): <<>> when field n is missing from the validated values.
check_generators(gens, n) ==
    IF Len(gens) = 0 THEN "IndexError"
    ELSE IF n # None /\ Len(gens[1]) = Val(n) THEN ""
    ELSE "ValidationError"

\* config_class(**task_config): the exception the constructor raises ("" when it returns)
ConstructError(cls, tc) ==
    IF cls = "PermutationResetAutomatonConfig"
    THEN LET nOk == Get(tc, "n", Some(DefaultN(cls))) # None
             \* a field that failed validation is missing from values
             nSeen == IF nOk THEN Get(tc, "n", Some(DefaultN(cls))) ELSE None
             g == check_generators(Get(tc, "generators", DefaultGenerators), nSeen)
         IN  IF g = "IndexError" THEN "IndexError"
             ELSE IF ~nOk \/ g # "" THEN "ValidationError"
             ELSE ""
    ELSE IF Label(cls) # {} /\ Get(tc, "label_type", Some("state")) # None
                           /\ Val(Get(tc, "label_type", Some("state"))) \notin Label(cls)
         THEN "ValidationError"
    ELSE ""

\* The object config_class(**task_config) returns: the declared fields with their defaults
Construct(cls, tc) ==
    [cls |-> cls,
     dataset_type |-> Get(tc, "dataset_type", "parity"),
     size |-> Get(tc, "size", DefaultSize),
     length |-> Get(tc, "length", DefaultLength)]
    @@ (IF HasN(cls) THEN [n |-> Get(tc, "n", Some(DefaultN(cls)))] ELSE <<>>)
    @@ (IF Label(cls) # {} THEN [label_type |-> Get(tc, "label_type", Some("state"))] ELSE <<>>)
    @@ (IF cls = "AdderAutomatonConfig"
        THEN [n_addends |-> Get(tc, "n_addends", Some(DefaultNAddends))] ELSE <<>>)
    @@ (IF cls = "PermutationResetAutomatonConfig"
        THEN [generators |-> Get(tc, "generators", DefaultGenerators)] ELSE <<>>)

\* math.factorial(self.n)
MathFactorial(n) ==
    IF n = None THEN Raise("TypeError")
    ELSE IF Val(n) < 0 THEN Raise("ValueError")
    ELSE Ret(Factorial(Val(n)))

\* FlipFlopAutomatonConfig.vocab_size and .output_vocab_size: self.n + 1
FlipFlopVocabSize(inst) ==
    IF inst.n = None THEN Raise("TypeError") ELSE Ret(Val(inst.n) + 1)

\* PermutationAutomatonConfig.vocab_size, CyclicAutomatonConfig.vocab_size and
\* .output_vocab_size: self.n
ReturnN(inst) ==
    IF inst.n = None THEN RetNone ELSE Ret(Val(inst.n))

\* PermutationResetAutomatonConfig.vocab_size
PermutationResetVocabSize(inst) ==
    IF MathFactorial(inst.n).exc # "" THEN MathFactorial(inst.n)
    ELSE Ret(Val(MathFactorial(inst.n).val) + Len(inst.generators))

\* The vocab_size property of a constructed task config
vocab_size(inst) ==
    CASE inst.cls \in {"ParityAutomatonConfig", "GridworldAutomatonConfig", "ABABAutomatonConfig",
                       "DihedralAutomatonConfig"} -> Ret(2)
      [] inst.cls \in {"AdderAutomatonConfig", "QuaternionAutomatonConfig"} -> Ret(4)
      [] inst.cls = "FlipFlopAutomatonConfig" -> FlipFlopVocabSize(inst)
      [] inst.cls \in PermutationClasses \cup {"CyclicAutomatonConfig"} -> ReturnN(inst)
      [] inst.cls = "PermutationResetAutomatonConfig" -> PermutationResetVocabSize(inst)

\* GridworldAutomatonConfig.output_vocab_size; a match with no matching case returns None
GridworldOutputVocabSize(inst) ==
    IF inst.label_type = Some("state") THEN ReturnN(inst)
    ELSE IF inst.label_type \in {Some("parity"), Some("boundary")} THEN Ret(2)
    ELSE RetNone

\* ABABAutomatonConfig.output_vocab_size
ABABOutputVocabSize(inst) ==
    IF inst.label_type = Some("state") THEN Ret(4)
    ELSE IF inst.label_type = Some("boundary") THEN Ret(2)
    ELSE RetNone

AdderOutputVocabSize_DigitIsBinary(inst) ==
    IF inst.label_type = Some("state")
    THEN (IF inst.n_addends = None THEN Raise("TypeError")
          ELSE Ret(2 * (2 ^ Val(inst.n_addends) - 1)))
    ELSE IF inst.label_type = Some("digit") THEN Ret(2)
    ELSE IF inst.label_type = Some("position") THEN Ret(2)
    ELSE RetNone

\* AdderAutomatonConfig.output_vocab_size
AdderOutputVocabSize(inst) ==
    IF inst.label_type = Some("state")
    THEN (IF inst.n_addends = None THEN Raise("TypeError")
          ELSE Ret(2 * (2 ^ Val(inst.n_addends) - 1)))
    ELSE IF inst.label_type = Some("digit")
    THEN (IF inst.n_addends = None THEN RetNone ELSE Ret(Val(inst.n_addends)))
    ELSE IF inst.label_type = Some("position") THEN Ret(2)
    ELSE RetNone

\* PermutationAutomatonConfig.output_vocab_size
PermutationOutputVocabSize(inst) ==
    IF inst.label_type = Some("state") THEN MathFactorial(inst.n)
    ELSE IF inst.label_type = Some("first_chair") THEN ReturnN(inst)
    ELSE RetNone

\* DihedralAutomatonConfig.output_vocab_size
DihedralOutputVocabSize(inst) ==
    IF inst.label_type = Some("state")
    THEN (IF inst.n = None THEN Raise("TypeError") ELSE Ret(Val(inst.n) * 2))
    ELSE IF inst.label_type = Some("toggle") THEN Ret(2)
    ELSE IF inst.label_type = Some("position") THEN ReturnN(inst)
    ELSE RetNone

\* The output_vocab_size property of a constructed task config
output_vocab_size(inst) ==
    CASE inst.cls = "ParityAutomatonConfig" -> Ret(2)
      [] inst.cls = "QuaternionAutomatonConfig" -> Ret(8)
      [] inst.cls = "GridworldAutomatonConfig" -> GridworldOutputVocabSize(inst)
      [] inst.cls = "ABABAutomatonConfig" -> ABABOutputVocabSize(inst)
      [] inst.cls = "AdderAutomatonConfig" -> AdderOutputVocabSize(inst)
      [] inst.cls = "FlipFlopAutomatonConfig" -> FlipFlopVocabSize(inst)
      [] inst.cls \in PermutationClasses -> PermutationOutputVocabSize(inst)
      [] inst.cls = "CyclicAutomatonConfig" -> ReturnN(inst)
      [] inst.cls = "DihedralAutomatonConfig" -> DihedralOutputVocabSize(inst)
      [] inst.cls = "PermutationResetAutomatonConfig" -> MathFactorial(inst.n)

----------------------------------------------------------------------------
(* The raw inputs *)

Put(m, key, x) == [k \in DOMAIN m \cup {key} |-> IF k = key THEN x ELSE m[k]]

MappingTypes == {"dict", "DictConfig"}

NChoices == {None} \cup {Some(k) : k \in 0..MaxN}
Lengths == 1..MaxLength

\* Keyword sets for one optional key: absent, or present with one of the values
Opt(key, values) == {<<>>} \cup {[k \in {key} |-> x] : x \in values}

LabelChoices(cls) ==
    IF Label(cls) = {} THEN {<<>>}
    ELSE Opt("label_type", {None, Some("digit")} \cup {Some(l) : l \in Label(cls)})

GeneratorChoices ==
    Opt("generators", { << <<1, 0, 2>>, <<2, 0, 1>> >>,
                        << <<1, 0, 2>>, <<0, 1>> >>,
                        << <<0, 1>>, <<1, 0, 2>> >>,
                        << <<1, 0, 2, 3>> >>,
                        << >> })

\* Every task_config of a tag, with its sequence length and dataset size
TaskConfigsOf(tag, lengths, ns) ==
    LET cls == config_class_map[tag]
    IN  { [dataset_type |-> tag, size |-> 4, length |-> len] @@ n @@ l @@ g @@ k :
            len \in lengths,
            n \in (IF HasN(cls) THEN Opt("n", ns) ELSE {<<>>}),
            l \in LabelChoices(cls),
            g \in (IF cls = "PermutationResetAutomatonConfig" THEN GeneratorChoices ELSE {<<>>}),
            k \in (IF cls = "AdderAutomatonConfig" THEN Opt("n_addends", ns) ELSE {<<>>}) }

UnknownTaskConfig == [dataset_type |-> "modular", size |-> 4, length |-> 1]

AllTaskConfigs ==
    UNION {TaskConfigsOf(tag, {1}, NChoices) : tag \in DatasetType} \cup {UnknownTaskConfig}

\* One or two task_configs per tag, for the inputs that vary the other groups
CoreTaskConfigs ==
    { tc \in UNION {TaskConfigsOf(tag, Lengths, {Some(2), Some(3)}) : tag \in DatasetType} :
        /\ "label_type" \notin DOMAIN tc
        /\ "n_addends" \notin DOMAIN tc
        /\ ("generators" \in DOMAIN tc) = (tc.dataset_type = "permutation_reset")
        /\ ("generators" \in DOMAIN tc =>
                /\ "n" \in DOMAIN tc
                /\ Len(tc.generators) = 2
                /\ \A i \in 1..2 : Len(tc.generators[i]) = Val(tc.n)) }

BaseTaskConfig == [dataset_type |-> "parity", size |-> 4, length |-> 2]

BaseSgldKwargs == Some([lr |-> "0.0001", noise_level |-> "1.0"])
BaseSgnhtKwargs == Some([lr |-> "0.0001", diffusion_factor |-> "0.01"])

BaseRlctConfig ==
    [rlct_loss_type |-> "ce", sigma |-> "0.25", batch_size |-> 2, save_results |-> FALSE,
     sampling_method |-> "SGLD", num_chains |-> 2, num_draws |-> 2, num_steps_bw_draws |-> 1,
     num_burnin_steps |-> 0, use_distill_loss |-> FALSE, online |-> FALSE,
     use_diagnostics |-> TRUE, sgld_kwargs |-> BaseSgldKwargs, sgnht_kwargs |-> BaseSgnhtKwargs]

BaseRaw ==
    [model_type |-> "NANO_GPT",
     task_config |-> BaseTaskConfig,
     dataloader_config |-> [train_bs |-> 1],
     optimizer_config |-> [default_lr |-> "0.001"],
     nano_gpt_config |-> [n_layers |-> 2],
     rlct_config |-> BaseRlctConfig,
     wandb_config |-> [log_to_wandb |-> TRUE, sweep |-> FALSE, sweep_num |-> None],
     num_training_iter |-> 5,
     eval_frequency |-> None,
     mapping |-> "DictConfig"]

\* The derived fields filled in by the caller with values of their own
Prefill(r) ==
    [r EXCEPT !.nano_gpt_config = @ @@ [block_size |-> 1024, vocab_size |-> Some(50304),
                                        output_vocab_size |-> Some(64)],
              !.rlct_config = [@ EXCEPT !.sgld_kwargs = Some(Val(@) @@ [num_samples |-> 7]),
                                        !.sgnht_kwargs = Some(Val(@) @@ [num_samples |-> 9])]
                              @@ [num_samples |-> 11, rlct_data_dir |-> "my_dir"]]

\* Inputs that vary the task
TaskInputs == { [BaseRaw EXCEPT !.task_config = tc] : tc \in AllTaskConfigs }

\* Inputs that vary the sampling budget
SamplingInputs ==
    UNION { {r, Prefill(r)} : r \in
        { [BaseRaw EXCEPT !.task_config = tc,
                          !.mapping = m,
                          !.dataloader_config.train_bs = bs,
                          !.rlct_config.num_draws = d,
                          !.rlct_config.num_steps_bw_draws = s,
                          !.rlct_config.num_burnin_steps = b] :
            tc \in CoreTaskConfigs, m \in MappingTypes, bs \in 1..MaxTrainBs, d \in 1..MaxDraws,
            s \in 1..MaxStepsBwDraws, b \in {0, 1} } }

\* Inputs that vary the evaluation cadence
EvalInputs ==
    { [BaseRaw EXCEPT !.task_config.size = size,
                      !.num_training_iter = iter,
                      !.eval_frequency = ef] :
        size \in {0, 4, 7}, iter \in {1, 5, 8}, ef \in {None, Some(0), Some(3), Some(0 - 2)} }

\* Inputs that vary the flags, the sampler family and the presence of the sampler records
FlagInputs ==
    { [BaseRaw EXCEPT !.mapping = m,
                      !.wandb_config = [log_to_wandb |-> log, sweep |-> sw, sweep_num |-> sn],
                      !.rlct_config.sampling_method = sm,
                      !.rlct_config.use_distill_loss = dl,
                      !.rlct_config.online = on,
                      !.rlct_config.use_diagnostics = dg,
                      !.rlct_config.sgld_kwargs = sgld,
                      !.rlct_config.sgnht_kwargs = sgnht] :
        m \in MappingTypes, log \in BOOLEAN, sw \in BOOLEAN, sn \in {None, Some(3)},
        sm \in {"SGLD", "SGLD_MA", "SGNHT"}, dl \in BOOLEAN, on \in BOOLEAN, dg \in BOOLEAN,
        sgld \in {None, BaseSgldKwargs}, sgnht \in {None, BaseSgnhtKwargs} }

\* The sign of the float literals of the sampler hyperparameters
IsNegative(f) == f \in {"-1.0", "-0.0001"}
IsPositive(f) == f \in {"0.0001", "0.01", "1.0"}

\* The keyword bounding_box_size of a sampler record: left out, or one of the values
WithBoundingBox(kwargs, values) ==
    {kwargs} \cup {Put(kwargs, "bounding_box_size", b) : b \in values}

\* Inputs that vary the sampler hyperparameters, negative and zero values included
KwargsInputs ==
    { [BaseRaw EXCEPT !.mapping = m,
                      !.rlct_config.sgld_kwargs = Some(sgld),
                      !.rlct_config.sgnht_kwargs = Some(sgnht)] :
        m \in MappingTypes,
        sgld \in UNION { WithBoundingBox([lr |-> lr, noise_level |-> nl], {"-1.0", "0.0", "1.0"}) :
                            lr \in {"-0.0001", "0.0", "0.0001"}, nl \in {"-1.0", "1.0"} },
        sgnht \in UNION { WithBoundingBox([lr |-> lr, diffusion_factor |-> df], {"0.0", "1.0"}) :
                            lr \in {"-0.0001", "0.0001"}, df \in {"-0.0001", "0.01"} } }

\* The mapping without a key
Drop(m, key) == [k \in DOMAIN m \ {key} |-> m[k]]

\* The fields RLCTConfig and the sampler records declare without a default
RlctRequired == {"rlct_loss_type", "sigma", "batch_size", "use_distill_loss", "save_results"}
SgldRequired == {"lr", "num_samples"}
SgnhtRequired == {"lr", "diffusion_factor", "num_samples"}

\* Inputs whose rlct_config leaves out a required field that _set_fields does not read
IncompleteInputs ==
    { [BaseRaw EXCEPT !.mapping = m, !.rlct_config = Drop(@, key)] :
        m \in MappingTypes, key \in RlctRequired \ {"use_distill_loss"} }

RawInputs ==
    TaskInputs \cup SamplingInputs \cup EvalInputs \cup FlagInputs \cup KwargsInputs
        \cup IncompleteInputs

----------------------------------------------------------------------------
(* MainConfig._set_fields, statement by statement *)

\* Exceptions that pydantic turns into a ValidationError when a validator raises them
Wrapped(exc) == IF exc \in {"ValueError", "TypeError", "AssertionError", "ValidationError"}
                THEN "ValidationError" ELSE exc

Fail(exc) ==
    /\ pc' = "failed"
    /\ err' = Wrapped(exc)

Following_ModelDimensionsSecond(step) ==
    CASE step = "resolve_task" -> "nano_gpt"
      [] step = "nano_gpt" -> "run_name"
      [] step = "run_name" -> "is_wandb_enabled"
      [] step = "is_wandb_enabled" -> "eval_frequency"
      [] step = "eval_frequency" -> "num_epochs"
      [] step = "num_epochs" -> "rlct_data_dir"
      [] step = "rlct_data_dir" -> "num_samples"
      [] step = "num_samples" -> "copy_num_samples"
      [] step = "copy_num_samples" -> "assert_burnin"
      [] step = "assert_burnin" -> "validate_fields"
      [] step = "validate_fields" -> "done"

\* The statement that follows a statement of the construction: lines 507-541 in textual
\* order, then the field validation that runs once the pre root validator has returned
Following(step) ==
    CASE step = "resolve_task" -> "eval_frequency"
      [] step = "eval_frequency" -> "run_name"
      [] step = "run_name" -> "is_wandb_enabled"
      [] step = "is_wandb_enabled" -> "num_epochs"
      [] step = "num_epochs" -> "nano_gpt"
      [] step = "nano_gpt" -> "rlct_data_dir"
      [] step = "rlct_data_dir" -> "num_samples"
      [] step = "num_samples" -> "copy_num_samples"
      [] step = "copy_num_samples" -> "assert_burnin"
      [] step = "assert_burnin" -> "validate_fields"
      [] step = "validate_fields" -> "done"

\* Every statement of the construction records itself and leaves the earlier outcome alone
Executed ==
    /\ steps' = Append(steps, pc)
    /\ UNCHANGED first

Init ==
    /\ raw \in RawInputs
    /\ raw0 = raw
    /\ v = [eval_frequency |-> raw.eval_frequency, run_name |-> None,
            is_wandb_enabled |-> None, num_epochs |-> None]
    /\ instance = None
    /\ pc = "resolve_task"
    /\ err = ""
    /\ config = None
    /\ callbacks = None
    /\ callback_names = None
    /\ steps = << >>
    /\ first = None

\* lines 507-509: look the tag up in config_class_map and construct the task config
ResolveTask ==
    /\ pc = "resolve_task"
    /\ Executed
    /\ LET tc == raw.task_config
       IN  IF tc.dataset_type \notin DOMAIN config_class_map
           THEN Fail("KeyError") /\ UNCHANGED instance
           ELSE LET cls == config_class_map[tc.dataset_type]
                IN  IF ConstructError(cls, tc) # ""
                    THEN Fail(ConstructError(cls, tc)) /\ UNCHANGED instance
                    ELSE /\ instance' = Construct(cls, tc)
                         /\ pc' = Following(pc)
                         /\ UNCHANGED err
    /\ UNCHANGED <<raw, raw0, v, config, callbacks, callback_names>>

\* lines 511-512: the value v["eval_frequency"] holds after the statement
EvalFrequency(ef, tc) == IF ef = None \/ Val(ef) = 0 THEN Some(tc.size) ELSE ef

SetEvalFrequency ==
    /\ pc = "eval_frequency"
    /\ Executed
    /\ v' = [v EXCEPT !.eval_frequency = EvalFrequency(v.eval_frequency, raw.task_config)]
    /\ pc' = Following(pc)
    /\ UNCHANGED <<raw, raw0, instance, err, config, callbacks, callback_names>>

\* line 514: the f-string of the run name
RunName(r) ==
    r.task_config.dataset_type \o "_" \o r.model_type \o "_LR" \o r.optimizer_config.default_lr
        \o "_its" \o ToString(r.num_training_iter)
        \o "_layers" \o ToString(r.nano_gpt_config.n_layers)
        \o "_seqlen" \o ToString(r.task_config.length)

SetRunName ==
    /\ pc = "run_name"
    /\ Executed
    /\ v' = [v EXCEPT !.run_name = Some(RunName(raw))]
    /\ pc' = Following(pc)
    /\ UNCHANGED <<raw, raw0, instance, err, config, callbacks, callback_names>>

\* line 515: a non-empty wandb_config mapping is truthy, so the value is log_to_wandb
SetIsWandbEnabled ==
    /\ pc = "is_wandb_enabled"
    /\ Executed
    /\ v' = [v EXCEPT !.is_wandb_enabled = Some(raw.wandb_config.log_to_wandb)]
    /\ pc' = Following(pc)
    /\ UNCHANGED <<raw, raw0, instance, err, config, callbacks, callback_names>>

NumEpochs_FloorDivision(iter, ef) ==
    IF ef = 0 THEN Raise("ZeroDivisionError")
    ELSE Ret(IF ef > 0 THEN iter \div ef ELSE (0 - iter) \div (0 - ef))

\* line 516: math.ceil(v["num_training_iter"] / v["eval_frequency"])
NumEpochs(iter, ef) == IF ef = 0 THEN Raise("ZeroDivisionError") ELSE Ret(CeilDiv(iter, ef))

SetNumEpochs ==
    /\ pc = "num_epochs"
    /\ Executed
    /\ LET e == NumEpochs(raw.num_training_iter, Val(v.eval_frequency))
       IN  IF e.exc # ""
           THEN Fail(e.exc) /\ UNCHANGED v
           ELSE /\ v' = [v EXCEPT !.num_epochs = e.val]
                /\ pc' = Following(pc)
                /\ UNCHANGED err
    /\ UNCHANGED <<raw, raw0, instance, config, callbacks, callback_names>>

AdjustedNanoGpt_GrowsBlockSize(nano, tc, inst) ==
    LET a == Put(nano, "block_size", Get(nano, "block_size", tc.length) + 1)
        b == Put(a, "vocab_size", vocab_size(inst).val)
        c == Put(b, "output_vocab_size", output_vocab_size(inst).val)
    IN  IF vocab_size(inst).exc # "" THEN a
        ELSE IF output_vocab_size(inst).exc # "" THEN b
        ELSE c

AdjustedNanoGpt_NoExtraSlot(nano, tc, inst) ==
    LET a == Put(nano, "block_size", tc.length)
        b == Put(a, "vocab_size", vocab_size(inst).val)
        c == Put(b, "output_vocab_size", output_vocab_size(inst).val)
    IN  IF vocab_size(inst).exc # "" THEN a
        ELSE IF output_vocab_size(inst).exc # "" THEN b
        ELSE c

\* lines 519-525: the nano_gpt_config mapping after the block, which assigns the three keys
\* in turn and stops at the first property that raises
AdjustedNanoGpt(nano, tc, inst) ==
    LET a == Put(nano, "block_size", tc.length + 1)
        b == Put(a, "vocab_size", vocab_size(inst).val)
        c == Put(b, "output_vocab_size", output_vocab_size(inst).val)
    IN  IF vocab_size(inst).exc # "" THEN a
        ELSE IF output_vocab_size(inst).exc # "" THEN b
        ELSE c

AdjustNanoGpt ==
    /\ pc = "nano_gpt"
    /\ Executed
    /\ raw' = [raw EXCEPT !.nano_gpt_config = AdjustedNanoGpt(@, raw.task_config, instance)]
    /\ IF vocab_size(instance).exc # "" THEN Fail(vocab_size(instance).exc)
       ELSE IF output_vocab_size(instance).exc # "" THEN Fail(output_vocab_size(instance).exc)
       ELSE pc' = Following(pc) /\ UNCHANGED err
    /\ UNCHANGED <<raw0, v, instance, config, callbacks, callback_names>>

\* lines 530-533
RlctDataDir(use_distill_loss) == IF ~use_distill_loss THEN "rlct_data" ELSE "rlct_data_distill"

SetRlctDataDir ==
    /\ pc = "rlct_data_dir"
    /\ Executed
    /\ raw' = [raw EXCEPT !.rlct_config =
                    Put(@, "rlct_data_dir", RlctDataDir(raw.rlct_config.use_distill_loss))]
    /\ pc' = Following(pc)
    /\ UNCHANGED <<raw0, v, instance, err, config, callbacks, callback_names>>

NumSamples_NoPopulationBound(rlct, train_bs, inst) ==
    IF vocab_size(inst).exc # "" THEN Raise(vocab_size(inst).exc)
    ELSE IF vocab_size(inst).val = None THEN Raise("TypeError")
    ELSE Ret((rlct.num_draws * rlct.num_steps_bw_draws + rlct.num_burnin_steps) * train_bs)

NumSamples_MinBeforeBatch(rlct, train_bs, inst) ==
    IF vocab_size(inst).exc # "" THEN Raise(vocab_size(inst).exc)
    ELSE IF vocab_size(inst).val = None THEN Raise("TypeError")
    ELSE Ret(Min(rlct.num_draws * rlct.num_steps_bw_draws + rlct.num_burnin_steps,
                 Val(vocab_size(inst).val) ^ inst.length) * train_bs)

\* line 535: the value assigned to rlct_config["num_samples"]
NumSamples(rlct, train_bs, inst) ==
    IF vocab_size(inst).exc # "" THEN Raise(vocab_size(inst).exc)
    ELSE IF vocab_size(inst).val = None THEN Raise("TypeError")
    ELSE Ret(Min((rlct.num_draws * rlct.num_steps_bw_draws + rlct.num_burnin_steps) * train_bs,
                 Val(vocab_size(inst).val) ^ inst.length))

SetNumSamples ==
    /\ pc = "num_samples"
    /\ Executed
    /\ LET n == NumSamples(raw.rlct_config, raw.dataloader_config.train_bs, instance)
       IN  IF n.exc # ""
           THEN Fail(n.exc) /\ UNCHANGED raw
           ELSE /\ raw' = [raw EXCEPT !.rlct_config = Put(@, "num_samples", Val(n.val))]
                /\ pc' = Following(pc)
                /\ UNCHANGED err
    /\ UNCHANGED <<raw0, v, instance, config, callbacks, callback_names>>

CopiedNumSamples_SelectedFamilyOnly(rlct) ==
    IF rlct.sampling_method = "SGNHT"
    THEN (IF rlct.sgnht_kwargs = None THEN rlct
          ELSE [rlct EXCEPT !.sgnht_kwargs = Some(Put(Val(@), "num_samples", rlct.num_samples))])
    ELSE (IF rlct.sgld_kwargs = None THEN rlct
          ELSE [rlct EXCEPT !.sgld_kwargs = Some(Put(Val(@), "num_samples", rlct.num_samples))])

\* line 537: the chained assignment stores into sgld_kwargs first and into sgnht_kwargs second;
\* storing into a record that is None raises TypeError
CopiedNumSamples(rlct) ==
    IF rlct.sgld_kwargs = None THEN rlct
    ELSE LET a == [rlct EXCEPT !.sgld_kwargs = Some(Put(Val(@), "num_samples", rlct.num_samples))]
         IN  IF rlct.sgnht_kwargs = None THEN a
             ELSE [a EXCEPT !.sgnht_kwargs = Some(Put(Val(@), "num_samples", rlct.num_samples))]

CopyNumSamples ==
    /\ pc = "copy_num_samples"
    /\ Executed
    /\ raw' = [raw EXCEPT !.rlct_config = CopiedNumSamples(@)]
    /\ IF raw.rlct_config.sgld_kwargs = None \/ raw.rlct_config.sgnht_kwargs = None
       THEN Fail("TypeError")
       ELSE pc' = Following(pc) /\ UNCHANGED err
    /\ UNCHANGED <<raw0, v, instance, config, callbacks, callback_names>>

\* line 539: rlct_config.num_burnin_steps is an attribute access; a dict has no such attribute
BurninCheck(mapping, rlct) ==
    IF mapping = "dict" THEN "AttributeError"
    ELSE IF rlct.num_burnin_steps # 0 THEN "AssertionError"
    ELSE ""

AssertBurnin ==
    /\ pc = "assert_burnin"
    /\ Executed
    /\ IF BurninCheck(raw.mapping, raw.rlct_config) # ""
       THEN Fail(BurninCheck(raw.mapping, raw.rlct_config))
       ELSE pc' = Following(pc) /\ UNCHANGED err
    /\ UNCHANGED <<raw, raw0, v, instance, config, callbacks, callback_names>>

----------------------------------------------------------------------------
(* Field validation of MainConfig, after the pre root validator has returned *)

\* WandBConfig.check_sweep_num: the exception it raises ("" when it passes)
check_sweep_num(value, values) == IF values.sweep /\ value = None THEN "ValueError" ELSE ""

\* The exception field validation ends with ("" when every field is accepted).  vocab_size is
\* declared int with an int default and rejects None; output_vocab_size is declared with
\* default None and accepts it; RLCTConfig and both sampler records reject a mapping that
\* leaves out a field declared without a default.
FieldErrors(r) ==
    IF r.nano_gpt_config.vocab_size = None THEN "ValidationError"
    ELSE IF ~(RlctRequired \subseteq DOMAIN r.rlct_config) THEN "ValidationError"
    ELSE IF r.rlct_config.sgld_kwargs # None
            /\ ~(SgldRequired \subseteq DOMAIN Val(r.rlct_config.sgld_kwargs))
         THEN "ValidationError"
    ELSE IF r.rlct_config.sgnht_kwargs # None
            /\ ~(SgnhtRequired \subseteq DOMAIN Val(r.rlct_config.sgnht_kwargs))
         THEN "ValidationError"
    ELSE IF check_sweep_num(r.wandb_config.sweep_num, r.wandb_config) # "" THEN "ValidationError"
    ELSE ""

\* The MainConfig object: the nested groups are parsed into objects of their own
BuildConfig(r, top) ==
    [model_type |-> r.model_type,
     task_config |-> r.task_config,
     dataloader_config |-> r.dataloader_config,
     optimizer_config |-> r.optimizer_config,
     nano_gpt_config |-> [r.nano_gpt_config EXCEPT !.vocab_size = Val(@)],
     rlct_config |-> [r.rlct_config EXCEPT !.sgld_kwargs = Val(@), !.sgnht_kwargs = Val(@)],
     wandb_config |-> r.wandb_config,
     num_training_iter |-> r.num_training_iter,
     run_name |-> Val(top.run_name),
     is_wandb_enabled |-> Val(top.is_wandb_enabled),
     num_epochs |-> Val(top.num_epochs),
     eval_frequency |-> Val(top.eval_frequency)]

ValidateFields ==
    /\ pc = "validate_fields"
    /\ Executed
    /\ IF FieldErrors(raw) # ""
       THEN Fail(FieldErrors(raw)) /\ UNCHANGED config
       ELSE /\ config' = Some(BuildConfig(raw, v))
            /\ pc' = Following(pc)
            /\ UNCHANGED err
    /\ UNCHANGED <<raw, raw0, v, instance, callbacks, callback_names>>

----------------------------------------------------------------------------
(* create_callbacks *)

Estimator(type, num_chains, num_draws, num_samples) ==
    [type |-> type, num_chains |-> num_chains, num_draws |-> num_draws, num_samples |-> num_samples]

Norm(type, num_chains, num_draws) ==
    [type |-> type, num_chains |-> num_chains, num_draws |-> num_draws, p_norm |-> 2]

Callbacks_EstimatorLast(rlct_config) ==
    LET num_chains == rlct_config.num_chains
        num_draws == rlct_config.num_draws
        num_samples == rlct_config.num_samples
        llc_estimator == IF rlct_config.online
                         THEN Estimator("OnlineLLCEstimator", num_chains, num_draws, num_samples)
                         ELSE Estimator("LLCEstimator", num_chains, num_draws, num_samples)
        diagnostics == IF rlct_config.use_diagnostics
                       THEN << Estimator("OnlineWBICEstimator", num_chains, num_draws, num_samples),
                               Norm("WeightNorm", num_chains, num_draws),
                               Norm("NoiseNorm", num_chains, num_draws),
                               Norm("GradientNorm", num_chains, num_draws) >>
                       ELSE << >>
    IN  diagnostics \o <<llc_estimator>>

\* lines 108-120: the callbacks list
Callbacks(rlct_config) ==
    LET num_chains == rlct_config.num_chains
        num_draws == rlct_config.num_draws
        num_samples == rlct_config.num_samples
        llc_estimator == IF rlct_config.online
                         THEN Estimator("OnlineLLCEstimator", num_chains, num_draws, num_samples)
                         ELSE Estimator("LLCEstimator", num_chains, num_draws, num_samples)
        diagnostics == IF rlct_config.use_diagnostics
                       THEN << Estimator("OnlineWBICEstimator", num_chains, num_draws, num_samples),
                               Norm("WeightNorm", num_chains, num_draws),
                               Norm("NoiseNorm", num_chains, num_draws),
                               Norm("GradientNorm", num_chains, num_draws) >>
                       ELSE << >>
    IN  <<llc_estimator>> \o diagnostics

\* validate_callbacks: handles that expect different chain or draw counts are rejected
validate_callbacks(cbs) ==
    IF \E i, j \in 1..Len(cbs) : cbs[i].num_chains # cbs[j].num_chains
                                  \/ cbs[i].num_draws # cbs[j].num_draws
    THEN "IncompatibleCallbackSet" ELSE ""

\* lines 123-125
CallbackNames(cbs) == [i \in 1..Len(cbs) |-> cbs[i].type]

CreateCallbacks ==
    /\ pc = "done"
    /\ LET cbs == Callbacks(Val(config).rlct_config)
       IN  IF validate_callbacks(cbs) # ""
           THEN /\ pc' = "callbacks_failed"
                /\ err' = validate_callbacks(cbs)
                /\ UNCHANGED <<callbacks, callback_names>>
           ELSE /\ callbacks' = Some(cbs)
                /\ callback_names' = Some(CallbackNames(cbs))
                /\ pc' = "callbacks_created"
                /\ UNCHANGED err
    /\ UNCHANGED <<raw, raw0, v, instance, config, steps, first>>

----------------------------------------------------------------------------
(* A second construction from the same raw input *)

\* Constructing MainConfig binds the top-level keys of the mapping to a fresh keyword dict, whose
\* values are the mapping's nested groups themselves: the construction starts again from
\* the raw input given, and the outcome of the construction before it is kept for comparison
Construct_Again(given) ==
    /\ pc \in {"done", "failed"}
    /\ first = None
    /\ first' = Some([config |-> config, err |-> err])
    /\ raw' = given
    /\ v' = [eval_frequency |-> given.eval_frequency, run_name |-> None,
             is_wandb_enabled |-> None, num_epochs |-> None]
    /\ instance' = None
    /\ pc' = "resolve_task"
    /\ err' = ""
    /\ config' = None
    /\ steps' = << >>
    /\ UNCHANGED <<raw0, callbacks, callback_names>>

\* from the mapping the first construction was given and wrote into
ConstructFromUsedInput == Construct_Again(raw)

\* from an independent mapping equal to the raw input of the first construction
ConstructFromEqualInput == Construct_Again(raw0)

----------------------------------------------------------------------------

Next ==
    \/ ResolveTask
    \/ SetEvalFrequency
    \/ SetRunName
    \/ SetIsWandbEnabled
    \/ SetNumEpochs
    \/ AdjustNanoGpt
    \/ SetRlctDataDir
    \/ SetNumSamples
    \/ CopyNumSamples
    \/ AssertBurnin
    \/ ValidateFields
    \/ CreateCallbacks

Spec == Init /\ [][Next]_vars

\* A downstream subsystem assigns to a field of the constructed configuration.  MainConfig
\* declares no Config class, so the model allows mutation and does not validate assignments:
\* the attribute is set to the value given.
AssignedFields == {"num_epochs", "eval_frequency"}
AssignedValues == {0, 9}

AssignField ==
    /\ pc \in {"done", "callbacks_created", "callbacks_failed"}
    /\ config # None
    /\ \E field \in AssignedFields, value \in AssignedValues :
            config' = Some([Val(config) EXCEPT ![field] = value])
    /\ UNCHANGED <<raw, raw0, v, instance, pc, err, callbacks, callback_names, steps, first>>

\* The construction, create_callbacks, and assignments by downstream subsystems
NextDownstream ==
    \/ Next
    \/ AssignField

SpecDownstream == Init /\ [][NextDownstream]_vars

\* The construction, and a second construction from the same raw input
NextTwice ==
    \/ Next
    \/ ConstructFromUsedInput
    \/ ConstructFromEqualInput

SpecTwice == Init /\ [][NextTwice]_vars

----------------------------------------------------------------------------
(* Properties *)

Constructed == config # None
InRawInput(r, group, key) == key \in DOMAIN r[group]

\* The population bound vocab_size ^ length of the resolved task
Population == Val(vocab_size(instance).val) ^ instance.length

\* The number of datapoints the sampler steps through, from the raw input
Drawn == (raw0.rlct_config.num_draws * raw0.rlct_config.num_steps_bw_draws
            + raw0.rlct_config.num_burnin_steps) * raw0.dataloader_config.train_bs

\* C1: in every constructed configuration rlct_config.num_samples is at most
\* vocab_size ^ length of the resolved task
C1_NumSamplesWithinPopulation ==
    Constructed => Val(config).rlct_config.num_samples <= Population

\* a configuration was constructed from an input whose draws exceed the population
C1_Witness ==
    /\ Constructed
    /\ Drawn > Population
    /\ Val(config).rlct_config.num_samples = Population

\* C2 as stated: num_samples = min(draws * steps + burn-in, population) * batch size
C2_MinThenBatch ==
    Constructed =>
        Val(config).rlct_config.num_samples =
            Min(raw0.rlct_config.num_draws * raw0.rlct_config.num_steps_bw_draws
                    + raw0.rlct_config.num_burnin_steps, Population)
                * raw0.dataloader_config.train_bs

\* C2 amended: num_samples = min((draws * steps + burn-in) * train_bs, population): the
\* product with the training batch size is taken first and the minimum second
C2_BatchThenMin ==
    Constructed =>
        \/ /\ Drawn <= Population
           /\ Val(config).rlct_config.num_samples = Drawn
        \/ /\ Drawn > Population
           /\ Val(config).rlct_config.num_samples = Population

\* a configuration on which the two orders of min and product differ
C2_Witness ==
    /\ Constructed
    /\ raw0.dataloader_config.train_bs > 1
    /\ Drawn > Population
    /\ raw0.rlct_config.num_draws * raw0.rlct_config.num_steps_bw_draws < Population

HoldsNumSamples(kwargs, n) == "num_samples" \in DOMAIN kwargs /\ kwargs.num_samples = n

\* C3: in every constructed configuration sgld_kwargs.num_samples and sgnht_kwargs.num_samples
\* both equal rlct_config.num_samples
C3_SamplerRecordsSynchronised ==
    Constructed =>
        /\ HoldsNumSamples(Val(config).rlct_config.sgld_kwargs, Val(config).rlct_config.num_samples)
        /\ HoldsNumSamples(Val(config).rlct_config.sgnht_kwargs, Val(config).rlct_config.num_samples)

\* a configuration constructed from an input whose three num_samples values were different
C3_Witness ==
    /\ Constructed
    /\ InRawInput(raw0, "rlct_config", "num_samples")
    /\ Val(raw0.rlct_config.sgld_kwargs).num_samples # Val(raw0.rlct_config.sgnht_kwargs).num_samples
    /\ Val(raw0.rlct_config.sgld_kwargs).num_samples # Val(config).rlct_config.num_samples
    /\ Val(raw0.rlct_config.sgnht_kwargs).num_samples # Val(config).rlct_config.num_samples

Ended == pc \in {"failed", "done", "callbacks_created", "callbacks_failed"}

BurninOrSweepViolation(r) ==
    \/ r.rlct_config.num_burnin_steps # 0
    \/ r.wandb_config.sweep /\ r.wandb_config.sweep_num = None

\* C4: a construction whose input has a nonzero num_burnin_steps, or sweep set and no
\* sweep_num, returns no configuration and ends with a constraint-violation error
C4_BurninOrSweepIsConstraintViolation ==
    (Ended /\ BurninOrSweepViolation(raw0)) =>
        /\ config = None
        /\ err = "ValidationError"

\* n! as the table of its values
FactorialTable(n) ==
    CASE n = 0 -> 1 [] n = 1 -> 1 [] n = 2 -> 2 [] n = 3 -> 6 [] n = 4 -> 24 [] n = 5 -> 120

\* The vocabulary table of the specification: the input vocabulary of a task of the given
\* tag with parameter n (k addends for the adder) and g generators
TableVocab(tag, n, g) ==
    CASE tag \in {"parity", "gridworld", "abab", "dihedral"} -> 2
      [] tag \in {"adder", "quaternion"} -> 4
      [] tag = "flipflop" -> n + 1
      [] tag \in {"symmetric", "alternating", "cyclic"} -> n
      [] tag = "permutation_reset" -> FactorialTable(n) + g

\* ... and its output vocabulary, by label type
TableOutputVocab(tag, n, label) ==
    CASE tag = "parity" -> 2
      [] tag = "gridworld" -> IF label = "state" THEN n ELSE 2
      [] tag = "abab" -> IF label = "state" THEN 4 ELSE 2
      [] tag = "adder" -> (CASE label = "state" -> 2 * (2 ^ n - 1)
                             [] label = "digit" -> n
                             [] label = "position" -> 2)
      [] tag = "flipflop" -> n + 1
      [] tag \in {"symmetric", "alternating"} -> IF label = "state" THEN FactorialTable(n) ELSE n
      [] tag = "cyclic" -> n
      [] tag = "dihedral" -> (CASE label = "state" -> 2 * n
                                [] label = "toggle" -> 2
                                [] label = "position" -> n)
      [] tag = "quaternion" -> 8
      [] tag = "permutation_reset" -> FactorialTable(n)

\* The parameter the table calls n (k for the adder; 0 for the variants without one)
TableN(inst) ==
    IF inst.cls = "AdderAutomatonConfig" THEN inst.n_addends
    ELSE IF "n" \in DOMAIN inst THEN inst.n
    ELSE Some(0)

\* A task config whose n and label_type are values of the table (an integer, a label type)
InTable(inst) ==
    /\ TableN(inst) # None
    /\ "label_type" \in DOMAIN inst => inst.label_type # None

\* C5: for every variant and every label type, vocab_size and output_vocab_size of a resolved
\* task config are the values of the specification's table
C5_VocabularyTable ==
    (instance # None /\ InTable(instance)) =>
        /\ vocab_size(instance) =
              Ret(TableVocab(instance.dataset_type, Val(TableN(instance)),
                             Len(Get(instance, "generators", <<>>))))
        /\ output_vocab_size(instance) =
              Ret(TableOutputVocab(instance.dataset_type, Val(TableN(instance)),
                                   Val(Get(instance, "label_type", Some("state")))))

\* an adder labelled by digit with three addends, and a permutation-reset task with generators
C5_Witness ==
    /\ instance # None
    /\ instance.dataset_type = "adder"
    /\ instance.label_type = Some("digit")
    /\ instance.n_addends = Some(3)
    /\ output_vocab_size(instance) = Ret(3)

ReturnsPositive(r) == r.exc = "" /\ r.val # None /\ Val(r.val) > 0

\* C6: vocab_size and output_vocab_size of every task config that construction accepts
\* return a positive integer
C6_VocabularyIsPositive ==
    instance # None => ReturnsPositive(vocab_size(instance)) /\ ReturnsPositive(output_vocab_size(instance))

\* C7: in every constructed configuration nano_gpt_config holds block_size = length + 1 and
\* the vocab_size and output_vocab_size of the resolved task config
C7_ModelDimensions ==
    Constructed =>
        /\ Val(config).nano_gpt_config.block_size = raw0.task_config.length + 1
        /\ Ret(Val(config).nano_gpt_config.vocab_size) = vocab_size(instance)
        /\ Val(config).nano_gpt_config.output_vocab_size = output_vocab_size(instance).val
        /\ output_vocab_size(instance).exc = ""

\* a configuration constructed from an input that pre-filled the three fields with other values
C7_Witness ==
    /\ Constructed
    /\ InRawInput(raw0, "nano_gpt_config", "block_size")
    /\ raw0.nano_gpt_config.block_size # Val(config).nano_gpt_config.block_size
    /\ raw0.nano_gpt_config.vocab_size # Some(Val(config).nano_gpt_config.vocab_size)
    /\ raw0.nano_gpt_config.output_vocab_size # Val(config).nano_gpt_config.output_vocab_size

\* e = ceil(a / b), stated without division
IsCeiling(e, a, b) ==
    \/ b > 0 /\ (e - 1) * b < a /\ a <= e * b
    \/ b < 0 /\ (e - 1) * b > a /\ a >= e * b

\* C8: in every constructed configuration eval_frequency is the task's size when the raw
\* input left it unset, and num_epochs = ceil(num_training_iter / eval_frequency) of the
\* derived eval_frequency
C8_EvalFrequencyAndEpochs ==
    Constructed =>
        /\ raw0.eval_frequency = None => Val(config).eval_frequency = raw0.task_config.size
        /\ IsCeiling(Val(config).num_epochs, raw0.num_training_iter, Val(config).eval_frequency)

\* a configuration whose eval_frequency was defaulted and does not divide the iterations
C8_Witness ==
    /\ Constructed
    /\ raw0.eval_frequency = None
    /\ Val(config).eval_frequency = 4
    /\ raw0.num_training_iter = 5
    /\ Val(config).num_epochs = 2

PrimaryEstimators == {"OnlineLLCEstimator", "LLCEstimator"}

\* C9: create_callbacks returns a list that starts with the one primary LLC estimator the
\* online flag selects, followed by nothing when use_diagnostics is false and by
\* OnlineWBICEstimator, WeightNorm, NoiseNorm, GradientNorm when it is true; the names list
\* has the same length and order
C9_CallbackOrder ==
    /\ pc # "callbacks_failed"
    /\ pc = "callbacks_created" =>
        LET cbs == Val(callbacks)
            names == Val(callback_names)
            rlct == Val(config).rlct_config
        IN  /\ Len(cbs) = (IF rlct.use_diagnostics THEN 5 ELSE 1)
            /\ cbs[1].type = (IF rlct.online THEN "OnlineLLCEstimator" ELSE "LLCEstimator")
            /\ \A i \in 2..Len(cbs) : cbs[i].type \notin PrimaryEstimators
            /\ rlct.use_diagnostics =>
                    <<cbs[2].type, cbs[3].type, cbs[4].type, cbs[5].type>> =
                        <<"OnlineWBICEstimator", "WeightNorm", "NoiseNorm", "GradientNorm">>
            /\ Len(names) = Len(cbs)
            /\ \A i \in 1..Len(cbs) : names[i] = cbs[i].type

\* the callbacks of an online configuration with diagnostics
C9_Witness ==
    /\ pc = "callbacks_created"
    /\ Val(config).rlct_config.online
    /\ Val(config).rlct_config.use_diagnostics
    /\ Len(Val(callbacks)) = 5
    /\ Val(callback_names)[1] = "OnlineLLCEstimator"

\* C10: a construction that failed returned no configuration and left the caller's raw input
\* mapping as it was
C10_FailureLeavesNoTrace ==
    pc = "failed" => config = None /\ raw = raw0

\* C11: a second construction, from an equal raw input or from the very mapping the first
\* construction used, ends as the first did: the same configuration field for field (or
\* none), and the same error
C11_Deterministic ==
    (first # None /\ pc \in {"done", "failed"}) =>
        /\ config = Val(first).config
        /\ err = Val(first).err

\* a second configuration constructed from a mapping the first construction had written into
C11_Witness ==
    /\ first # None
    /\ pc = "done"
    /\ raw # raw0
    /\ Val(first).config # None
    /\ config = Val(first).config

\* The raw input names a non-positive eval_frequency, or names none and a non-positive size
NonPositiveEvalFrequency(r) ==
    \/ r.eval_frequency # None /\ Val(r.eval_frequency) <= 0
    \/ r.eval_frequency = None /\ r.task_config.size <= 0

\* C12: every constructed configuration has eval_frequency > 0, and a construction whose raw
\* eval_frequency is non-positive, or unset with a non-positive size, returns no
\* configuration and ends with a constraint-violation error
C12_EvalFrequencyPositive ==
    /\ Constructed => Val(config).eval_frequency > 0
    /\ (Ended /\ NonPositiveEvalFrequency(raw0)) =>
            /\ config = None
            /\ err = "ValidationError"

\* The constructor the specification's registry names for a tag
RegisteredConstructor(tag) ==
    CASE tag = "parity" -> "ParityAutomatonConfig"
      [] tag = "gridworld" -> "GridworldAutomatonConfig"
      [] tag = "abab" -> "ABABAutomatonConfig"
      [] tag = "adder" -> "AdderAutomatonConfig"
      [] tag = "flipflop" -> "FlipFlopAutomatonConfig"
      [] tag = "cyclic" -> "CyclicAutomatonConfig"
      [] tag = "dihedral" -> "DihedralAutomatonConfig"
      [] tag = "quaternion" -> "QuaternionAutomatonConfig"
      [] tag = "symmetric" -> "SymmetricAutomatonConfig"
      [] tag = "alternating" -> "AlternatingAutomatonConfig"
      [] tag = "permutation_reset" -> "PermutationResetAutomatonConfig"

\* C13: the registered tags are exactly the DatasetType values; a construction whose
\* dataset_type is not one of them fails at the task resolution, its first step, with no
\* derived field computed and nothing written; every resolved task is an instance of the
\* one constructor registered for its tag
C13_UnknownTagFailsFirst ==
    /\ DOMAIN config_class_map = DatasetType
    /\ (steps # << >> /\ raw0.task_config.dataset_type \notin DatasetType) =>
            /\ pc = "failed"
            /\ steps = <<"resolve_task">>
            /\ instance = None
            /\ config = None
            /\ raw = raw0
            /\ v = [eval_frequency |-> raw0.eval_frequency, run_name |-> None,
                    is_wandb_enabled |-> None, num_epochs |-> None]
    /\ instance # None =>
            /\ raw0.task_config.dataset_type \in DatasetType
            /\ instance.cls = RegisteredConstructor(raw0.task_config.dataset_type)

\* a construction with the unregistered tag "modular" that has failed in the lookup
C13_Witness ==
    /\ raw0.task_config.dataset_type = "modular"
    /\ pc = "failed"
    /\ err = "KeyError"
    /\ steps = <<"resolve_task">>

\* A sampler record whose hyperparameters are in the ranges the specification states
KwargsInRange(k) ==
    /\ ~IsNegative(k.lr)
    /\ "noise_level" \in DOMAIN k => ~IsNegative(k.noise_level)
    /\ "diffusion_factor" \in DOMAIN k => ~IsNegative(k.diffusion_factor)
    /\ "bounding_box_size" \in DOMAIN k => IsPositive(k.bounding_box_size)

\* C14: no configuration is constructed whose sgld_kwargs or sgnht_kwargs holds a negative
\* lr, a negative noise_level or diffusion_factor, or a bounding_box_size that is present
\* and not positive
C14_SamplerKwargsInRange ==
    Constructed =>
        /\ KwargsInRange(Val(config).rlct_config.sgld_kwargs)
        /\ KwargsInRange(Val(config).rlct_config.sgnht_kwargs)

\* C15: a constructed configuration stays the one the construction returned: in every later
\* state, also after create_callbacks and after a field assignment by a downstream
\* subsystem, every field holds the value the construction gave it
C15_ConstructedConfigIsFixed ==
    Constructed => config = Some(BuildConfig(raw, v))

\* The position the specification gives a statement in its numbered derivation order
\* (0 for the statement it does not number)
ClaimedPosition(step) ==
    CASE step = "resolve_task" -> 1
      [] step = "nano_gpt" -> 2
      [] step = "run_name" -> 3
      [] step = "eval_frequency" -> 4
      [] step = "num_epochs" -> 5
      [] step = "rlct_data_dir" -> 6
      [] step = "num_samples" -> 7
      [] step = "copy_num_samples" -> 8
      [] step = "assert_burnin" -> 9
      [] step = "validate_fields" -> 9
      [] OTHER -> 0

\* C16 as stated: the statements run in the order task resolution, model dimensions, run
\* identifier, eval_frequency, num_epochs, storage tag, num_samples, copy to the sampler
\* records, burn-in and sweep_num checks
C16_ClaimedOrder ==
    \A i, j \in 1..Len(steps) :
        (i < j /\ ClaimedPosition(steps[i]) # 0 /\ ClaimedPosition(steps[j]) # 0) =>
            ClaimedPosition(steps[i]) <= ClaimedPosition(steps[j])

\* The order of the statements of _set_fields, and field validation after it
CodeOrder ==
    <<"resolve_task", "eval_frequency", "run_name", "is_wandb_enabled", "num_epochs",
      "nano_gpt", "rlct_data_dir", "num_samples", "copy_num_samples", "assert_burnin",
      "validate_fields">>

\* C16 (amended): the statements run in the order task resolution, eval_frequency, run
\* identifier, tracking flag, num_epochs, model dimensions, storage tag, num_samples, copy to
\* the sampler records, burn-in check, field validation with the sweep_num check; a
\* construction runs a prefix of this order, so every statement reads only raw fields and
\* fields of earlier statements
C16_CodeOrder ==
    /\ Len(steps) <= Len(CodeOrder)
    /\ steps = SubSeq(CodeOrder, 1, Len(steps))

\* a construction that has run every statement and returned a configuration
C16_Witness ==
    /\ Constructed
    /\ pc = "done"
    /\ steps = CodeOrder

\* C17: every constructed permutation-reset task config has all of its generators of
\* length n; a task_config with a generator of another length constructs nothing
C17_GeneratorsHaveLengthN ==
    (instance # None /\ instance.cls = "PermutationResetAutomatonConfig") =>
        \A i \in 1..Len(instance.generators) : Len(instance.generators[i]) = Val(instance.n)

====
